---- MODULE Spec2Model ----
(***************************************************************************)
(* Ingestion and repair pipeline of the AI-enabled data cleaning tool:     *)
(* IngestionEngine (src/src/core/ingestion.py), AIFixer                    *)
(* (src/src/core/ai_fixer.py) and the Streamlit page that drives them      *)
(* (src/src/ui/app.py).                                                    *)
(*                                                                         *)
(* Text is a sequence of one-character strings, a record is a sequence of  *)
(* fields, a field is text, and a file on disk is text (or Absent).        *)
(***************************************************************************)
EXTENDS Integers, Sequences, FiniteSets, TLC

\* ------------------------------------------------------------------ bounds
\* Records of an uploaded file, header included.
MaxRecords == 3
\* Fields of one record.
MaxFields == 2
\* Uploads in one session.
MaxUploads == 1

\* The field values of the uploaded files: the empty one, and one that the
\* csv writer has to quote.
Fields == {<<>>, <<",">>}

\* -------------------------------------------------------- text primitives
\* str.strip() with no argument removes these from both ends.
Whitespace == {" ", "\t", "\n", "\r"}

RECURSIVE Flatten(_)
\* "".join(parts)
Flatten(parts) ==
    IF parts = <<>> THEN <<>> ELSE Head(parts) \o Flatten(Tail(parts))

RECURSIVE Join(_, _)
\* sep.join(parts)
Join(parts, sep) ==
    IF parts = <<>> THEN <<>>
    ELSE IF Len(parts) = 1 THEN parts[1]
    ELSE parts[1] \o sep \o Join(Tail(parts), sep)

\* s[i:i+len(p)] == p   (1-based i)
MatchAt(s, i, p) ==
    /\ i + Len(p) - 1 <= Len(s)
    /\ \A k \in 1..Len(p) : s[i + k - 1] = p[k]

\* p in s
Contains(s, p) == \E i \in 1..(Len(s) + 1) : MatchAt(s, i, p)

RECURSIVE ReplaceFrom(_, _, _, _)
ReplaceFrom(s, i, p, r) ==
    IF i > Len(s) THEN <<>>
    ELSE IF MatchAt(s, i, p) THEN r \o ReplaceFrom(s, i + Len(p), p, r)
    ELSE <<s[i]>> \o ReplaceFrom(s, i + 1, p, r)

\* s.replace(p, r) for a non-empty p: leftmost, non-overlapping occurrences.
Replace(s, p, r) == ReplaceFrom(s, 1, p, r)

RECURSIVE LStrip(_)
LStrip(s) ==
    IF s # <<>> /\ Head(s) \in Whitespace THEN LStrip(Tail(s)) ELSE s

RECURSIVE RStrip(_)
RStrip(s) ==
    IF s # <<>> /\ s[Len(s)] \in Whitespace
    THEN RStrip(SubSeq(s, 1, Len(s) - 1)) ELSE s

\* s.strip()
Strip(s) == RStrip(LStrip(s))

RECURSIVE SplitFrom(_, _, _, _)
SplitFrom(s, i, c, cur) ==
    IF i > Len(s) THEN <<cur>>
    ELSE IF s[i] = c THEN <<cur>> \o SplitFrom(s, i + 1, c, <<>>)
    ELSE SplitFrom(s, i + 1, c, Append(cur, s[i]))

\* s.split(c) for a one-character separator: always count(c) + 1 parts.
Split(s, c) == SplitFrom(s, 1, c, <<>>)

RECURSIVE SelectNonBlank(_)
\* [line.strip() for line in lines if line.strip()]
SelectNonBlank(lines) ==
    IF lines = <<>> THEN <<>>
    ELSE IF Strip(Head(lines)) = <<>> THEN SelectNonBlank(Tail(lines))
    ELSE <<Strip(Head(lines))>> \o SelectNonBlank(Tail(lines))

RECURSIVE LinesFrom(_, _, _)
LinesFrom(s, i, cur) ==
    IF i > Len(s) THEN (IF cur = <<>> THEN <<>> ELSE <<cur>>)
    ELSE IF s[i] = "\n" THEN <<Append(cur, "\n")>> \o LinesFrom(s, i + 1, <<>>)
    ELSE IF s[i] = "\r"
         THEN <<Append(cur, "\n")>>
              \o LinesFrom(s, IF MatchAt(s, i, <<"\r", "\n">>) THEN i + 2 ELSE i + 1, <<>>)
    ELSE LinesFrom(s, i + 1, Append(cur, s[i]))

\* open(path, 'r').readlines(): text mode with universal newlines, so "\r\n"
\* and "\r" both arrive as "\n"; every line keeps its "\n", and a last line
\* without a terminator is returned as it is.
ReadLines(text) == LinesFrom(text, 1, <<>>)

\* open(path, 'r').readline(): the first line, or "" at end of file.
ReadLine(text) == IF ReadLines(text) = <<>> THEN <<>> ELSE ReadLines(text)[1]

\* ------------------------------------------------- csv writer and parser
\* The characters that make csv.writer (excel dialect, QUOTE_MINIMAL) quote a
\* field: the delimiter, the quote character and those of the line terminator.
CsvSpecial == {",", "\"", "\r", "\n"}

\* One field as csv.writer writes it: quoted, with quotes doubled, when it
\* holds a special character.
QuoteField(f) ==
    IF \E k \in 1..Len(f) : f[k] \in CsvSpecial
    THEN <<"\"">> \o Replace(f, <<"\"">>, <<"\"", "\"">>) \o <<"\"">>
    ELSE f

\* csv.writer.writerow(row): the fields joined by ",", then "\r\n". A row of
\* one empty field is written as "" in quotes, so that it is not a blank line.
writerow(row) ==
    ( IF row = << <<>> >> THEN <<"\"", "\"">>
      ELSE Join([k \in 1..Len(row) |-> QuoteField(row[k])], <<",">>) )
    \o <<"\r", "\n">>

RECURSIVE ParseFrom(_, _, _, _, _, _)
\* The records of delimited text under the RFC 4180 discipline. rec: the
\* fields of the record so far, cur: the field so far, q: inside quotes,
\* any: the record has had a character. A blank line is the record <<>>.
ParseFrom(s, i, rec, cur, q, any) ==
    IF i > Len(s) THEN (IF any THEN <<Append(rec, cur)>> ELSE <<>>)
    ELSE IF q THEN
        IF MatchAt(s, i, <<"\"", "\"">>)
        THEN ParseFrom(s, i + 2, rec, Append(cur, "\""), TRUE, TRUE)
        ELSE IF s[i] = "\""
        THEN ParseFrom(s, i + 1, rec, cur, FALSE, TRUE)
        ELSE ParseFrom(s, i + 1, rec, Append(cur, s[i]), TRUE, TRUE)
    ELSE IF s[i] = "\"" /\ cur = <<>>
        THEN ParseFrom(s, i + 1, rec, cur, TRUE, TRUE)
    ELSE IF s[i] = ","
        THEN ParseFrom(s, i + 1, Append(rec, cur), <<>>, FALSE, TRUE)
    ELSE IF s[i] \in {"\r", "\n"}
        THEN <<IF any THEN Append(rec, cur) ELSE <<>>>>
             \o ParseFrom(s, IF MatchAt(s, i, <<"\r", "\n">>) THEN i + 2 ELSE i + 1,
                          <<>>, <<>>, FALSE, FALSE)
    ELSE ParseFrom(s, i + 1, rec, Append(cur, s[i]), FALSE, TRUE)

ParseCsv(text) == ParseFrom(text, 1, <<>>, <<>>, FALSE, FALSE)

\* ------------------------------------------- AIFixer.fix_ragged_row cleanup
ThinkOpen == <<"<", "t", "h", "i", "n", "k", ">">>
ThinkClose == <<"<", "/", "t", "h", "i", "n", "k", ">">>
\* The backquote character (a string of the module cannot hold it).
BQ == "BACKQUOTE"
FenceCsv == <<BQ, BQ, BQ, "c", "s", "v">>
Fence == <<BQ, BQ, BQ>>
FinalAnswer == <<"F", "i", "n", "a", "l", " ", "A", "n", "s", "w", "e", "r", ":">>
BoxedOpen == <<"\\", "b", "o", "x", "e", "d", "{">>
BraceClose == <<"}">>

\* What re.IGNORECASE compares: letters by their lower case.
UpperToLower ==
    [A |-> "a", B |-> "b", C |-> "c", D |-> "d", E |-> "e", F |-> "f", G |-> "g",
     H |-> "h", I |-> "i", J |-> "j", K |-> "k", L |-> "l", M |-> "m", N |-> "n",
     O |-> "o", P |-> "p", Q |-> "q", R |-> "r", S |-> "s", T |-> "t", U |-> "u",
     V |-> "v", W |-> "w", X |-> "x", Y |-> "y", Z |-> "z"]

Lower(c) == IF c \in DOMAIN UpperToLower THEN UpperToLower[c] ELSE c

MatchAtIgnoreCase(s, i, p) ==
    /\ i + Len(p) - 1 <= Len(s)
    /\ \A k \in 1..Len(p) : Lower(s[i + k - 1]) = Lower(p[k])

RECURSIVE RemoveThinkFrom(_, _)
RemoveThinkFrom(s, i) ==
    IF i > Len(s) THEN <<>>
    ELSE LET ends == {j \in (i + Len(ThinkOpen))..Len(s) : MatchAt(s, j, ThinkClose)}
         IN  IF MatchAt(s, i, ThinkOpen) /\ ends # {}
             THEN LET j == CHOOSE e \in ends : \A o \in ends : e <= o
                  IN  RemoveThinkFrom(s, j + Len(ThinkClose))
             ELSE <<s[i]>> \o RemoveThinkFrom(s, i + 1)

\* re.sub(r'<think>.*?</think>', '', s, flags=re.DOTALL): every leftmost
\* block up to its nearest closing tag; an opening tag never closed stays.
RemoveThink(s) == RemoveThinkFrom(s, 1)

RECURSIVE SkipSpace(_, _)
\* The end of the longest run of whitespace (\s*) that starts at i.
SkipSpace(s, i) ==
    IF i <= Len(s) /\ s[i] \in Whitespace THEN SkipSpace(s, i + 1) ELSE i

RECURSIVE RemoveLabelFrom(_, _)
RemoveLabelFrom(s, i) ==
    IF i > Len(s) THEN <<>>
    ELSE IF MatchAtIgnoreCase(s, i, FinalAnswer)
         THEN RemoveLabelFrom(s, SkipSpace(s, i + Len(FinalAnswer)))
    ELSE <<s[i]>> \o RemoveLabelFrom(s, i + 1)

\* re.sub(r'Final Answer:\s*', '', s, flags=re.IGNORECASE)
RemoveLabel(s) == RemoveLabelFrom(s, 1)

\* clean_content.replace(FenceCsv, "").replace(Fence, "")
RemoveFences(s) == Replace(Replace(s, FenceCsv, <<>>), Fence, <<>>)

\* clean_content.replace(r"\boxed{", "").replace("}", "")
RemoveBoxed(s) == Replace(Replace(s, BoxedOpen, <<>>), BraceClose, <<>>)

\* The cleaning steps of fix_ragged_row on the collaborator's text: the last
\* non-blank line of what the four removals leave, stripped; the raw row when
\* nothing is left.
CleanResponse(raw_content, bad_row_str) ==
    LET clean_content == RemoveBoxed(RemoveLabel(RemoveFences(RemoveThink(raw_content))))
        lines == SelectNonBlank(Split(clean_content, "\n"))
    IN  IF lines = <<>> THEN bad_row_str ELSE lines[Len(lines)]

\* The sentinel of a failed invocation: f"AI Error: {str(e)}".
AIError(msg) == <<"A", "I", " ", "E", "r", "r", "o", "r", ":", " ">> \o msg

\* ---------------------------------------------------------------- values
\* A file on disk: absent, or its text (records, for the upload).
Absent == [exists |-> FALSE, content |-> <<>>]
File(content) == [exists |-> TRUE, content |-> content]

\* st.session_state.split_stats: None, the empty-file outcome, or the counts.
NoStats == [kind |-> "none", total |-> 0, good |-> 0, bad |-> 0, expected_cols |-> 0]
EmptyFile == [kind |-> "empty_file", total |-> 0, good |-> 0, bad |-> 0, expected_cols |-> 0]
SplitResult(total, good, bad, cols) ==
    [kind |-> "result", total |-> total, good |-> good, bad |-> bad, expected_cols |-> cols]

\* st.session_state.ai_preview_data: None, or the list of proposals.
NoPreview == [set |-> FALSE, rows |-> <<>>]
Preview(rows) == [set |-> TRUE, rows |-> rows]

\* The result of merge_and_finalize; NoMerge when a step calls no merge.
NoMerge == [called |-> FALSE, fixed |-> "", success |-> FALSE]

\* No fix_ragged_row call on its own.
NoCall == [row |-> <<>>, raw |-> <<>>, out |-> <<>>, done |-> FALSE]

\* A missing value of the columnar engine.
Null == <<"NULL">>

RECURSIVE SeqsOver(_, _)
\* The sequences over S of length at most n.
SeqsOver(S, n) ==
    IF n = 0 THEN {<<>>}
    ELSE LET shorter == SeqsOver(S, n - 1)
         IN  shorter \cup {Append(q, e) : q \in {t \in shorter : Len(t) = n - 1}, e \in S}

Records == SeqsOver(Fields, MaxFields)
\* The uploaded files, as the records csv.reader yields for them.
Files == SeqsOver(Records, MaxRecords)

VARIABLES
    uploaded_file,        \* the uploader widget's file
    temp_file,            \* temp_path: the saved upload
    clean_file,           \* clean_path: the conforming stream
    bad_file,             \* quarantine_path: the ragged stream
    fixed_ai,             \* processed/fixed_ai.csv
    fixed_manual,         \* processed/fixed_manual.csv
    master,               \* pq_path: the canonical dataset, as rows
    processing_complete,  \* st.session_state.processing_complete
    manual_edit_mode,     \* st.session_state.manual_edit_mode
    split_stats,          \* st.session_state.split_stats
    ai_preview_data,      \* st.session_state.ai_preview_data
    page,                 \* what the last script run rendered, or the run in progress
    reader,               \* stream_clean_and_split: index of the next input record
    total_rows, good_rows, bad_rows, expected_cols,
    ai_rows,              \* AI Auto-Fix: the lines read from the ragged stream
    ai_index,             \* AI Auto-Fix: the line the loop is at
    preview_data,         \* AI Auto-Fix: the proposals so far
    uploads,              \* uploads so far
    norm,                 \* a fix_ragged_row call on its own: row, answer, result
    merge_call            \* the merge_and_finalize call of the last step

disk == <<temp_file, clean_file, bad_file, fixed_ai, fixed_manual, master>>
session == <<processing_complete, manual_edit_mode, split_stats, ai_preview_data>>
splitter == <<reader, total_rows, good_rows, bad_rows, expected_cols>>
fixer == <<ai_rows, ai_index, preview_data>>
vars == <<uploaded_file, disk, session, page, splitter, fixer, uploads, norm, merge_call>>

Init ==
    /\ uploaded_file = Absent
    /\ temp_file = Absent /\ clean_file = Absent /\ bad_file = Absent
    /\ fixed_ai = Absent /\ fixed_manual = Absent /\ master = Absent
    /\ processing_complete = FALSE
    /\ manual_edit_mode = FALSE
    /\ split_stats = NoStats
    /\ ai_preview_data = NoPreview
    /\ page = "upload"
    /\ reader = 0 /\ total_rows = 0 /\ good_rows = 0 /\ bad_rows = 0 /\ expected_cols = 0
    /\ ai_rows = <<>> /\ ai_index = 0 /\ preview_data = <<>>
    /\ uploads = 0
    /\ norm = NoCall
    /\ merge_call = NoMerge

\* The page a script run renders from the session state, past the upload and
\* the checks: stats["bad"] on the empty-file outcome is a KeyError.
RenderPage(stats, complete, preview) ==
    IF stats.kind # "result" THEN "exception"
    ELSE IF stats.bad = 0 \/ complete THEN "finished"
    ELSE IF preview.set /\ preview.rows # <<>> THEN "review"
    ELSE "repair"

\* ------------------------------------------------------------- the upload
\* A file arrives in the empty uploader. It is saved under its name unless a
\* file of that name is there already; split_stats is None here, so the checks
\* run and stream_clean_and_split opens its three files. Every upload of the
\* model carries the same file name.
SaveAndCheck(content) ==
    /\ page = "upload"
    /\ uploads' = uploads + 1
    /\ uploaded_file' = File(content)
    /\ temp_file' = IF temp_file.exists THEN temp_file ELSE File(content)
    /\ clean_file' = File(<<>>)
    /\ bad_file' = File(<<>>)
    /\ reader' = 1
    /\ total_rows' = 0 /\ good_rows' = 0 /\ bad_rows' = 0 /\ expected_cols' = 0
    /\ page' = "splitting"
    /\ merge_call' = NoMerge
    /\ UNCHANGED <<fixed_ai, fixed_manual, master, session, fixer, norm>>

\* The upload of a session of MaxUploads files.
Upload(content) ==
    /\ uploads < MaxUploads
    /\ SaveAndCheck(content)

\* The file is removed from the uploader: the run resets three session keys
\* and returns.
Remove ==
    /\ page \in {"exception", "finished", "repair", "review"}
    /\ uploaded_file' = Absent
    /\ processing_complete' = FALSE
    /\ split_stats' = NoStats
    /\ ai_preview_data' = NoPreview
    /\ page' = "upload"
    /\ merge_call' = NoMerge
    /\ UNCHANGED <<disk, manual_edit_mode, splitter, fixer, uploads, norm>>

\* ------------------------------------------------ stream_clean_and_split
\* header = next(reader): the empty-file outcome, which the page then indexes
\* with "bad"; or the header, written to both streams.
SplitHeader ==
    /\ page = "splitting"
    /\ reader = 1
    /\ IF temp_file.content = <<>>
       THEN /\ split_stats' = EmptyFile
            /\ page' = RenderPage(EmptyFile, processing_complete, ai_preview_data)
            /\ reader' = 0
            /\ UNCHANGED <<expected_cols, clean_file, bad_file>>
       ELSE LET header == temp_file.content[1]
            IN  /\ expected_cols' = Len(header)
                /\ clean_file' = File(clean_file.content \o writerow(header))
                /\ bad_file' = File(bad_file.content \o writerow(header))
                /\ reader' = 2
                /\ UNCHANGED <<split_stats, page>>
    /\ merge_call' = NoMerge
    /\ UNCHANGED <<uploaded_file, temp_file, fixed_ai, fixed_manual, master,
                   processing_complete, manual_edit_mode, ai_preview_data,
                   total_rows, good_rows, bad_rows, fixer, uploads, norm>>

\* The comparison taken for "at most the header's columns".
MutConforms(row, cols) == Len(row) <= cols

\* Whether the splitter sends a row to the conforming stream.
Conforms(row, cols) == Len(row) = cols

\* One turn of "for row in reader".
SplitRow ==
    /\ page = "splitting"
    /\ reader >= 2
    /\ reader <= Len(temp_file.content)
    /\ LET row == temp_file.content[reader]
       IN  /\ total_rows' = total_rows + 1
           /\ IF Conforms(row, expected_cols)
              THEN /\ clean_file' = File(clean_file.content \o writerow(row))
                   /\ good_rows' = good_rows + 1
                   /\ UNCHANGED <<bad_file, bad_rows>>
              ELSE /\ bad_file' = File(bad_file.content \o writerow(row))
                   /\ bad_rows' = bad_rows + 1
                   /\ UNCHANGED <<clean_file, good_rows>>
    /\ reader' = reader + 1
    /\ merge_call' = NoMerge
    /\ UNCHANGED <<uploaded_file, temp_file, fixed_ai, fixed_manual, master, session,
                   page, expected_cols, fixer, uploads, norm>>

\* The counts with the header counted as a row.
MutSplitCounts(total, good, bad, cols) == SplitResult(total + 1, good, bad, cols)

\* The counts the splitter returns.
SplitCounts(total, good, bad, cols) == SplitResult(total, good, bad, cols)

\* The reader is exhausted: the counts are returned and cached, and the page
\* reruns.
SplitReturn ==
    /\ page = "splitting"
    /\ reader >= 2
    /\ reader > Len(temp_file.content)
    /\ LET stats == SplitCounts(total_rows, good_rows, bad_rows, expected_cols)
       IN  /\ split_stats' = stats
           /\ page' = RenderPage(stats, processing_complete, ai_preview_data)
    /\ reader' = 0
    /\ total_rows' = 0 /\ good_rows' = 0 /\ bad_rows' = 0 /\ expected_cols' = 0
    /\ merge_call' = NoMerge
    /\ UNCHANGED <<uploaded_file, disk, processing_complete, manual_edit_mode,
                   ai_preview_data, fixer, uploads, norm>>

\* ------------------------------------------------------ merge_and_finalize
RECURSIVE DropLeadingBlank(_)
\* The columnar engine's CSV reader skips the blank lines that come before
\* the header.
DropLeadingBlank(recs) ==
    IF recs # <<>> /\ Head(recs) = <<>> THEN DropLeadingBlank(Tail(recs)) ELSE recs

\* The records the engine reads from a CSV text: the header first. None at
\* all is its "empty CSV" error.
ScanCsv(text) == DropLeadingBlank(ParseCsv(text))

RECURSIVE FrameRows(_, _)
\* The rows of a frame of n columns read from data records: a blank line is
\* skipped (a missing value when n = 1) and a short record is filled up with
\* missing values.
FrameRows(recs, n) ==
    IF recs = <<>> THEN <<>>
    ELSE LET r == Head(recs)
         IN  ( IF r = <<>> /\ n # 1 THEN <<>>
               ELSE <<[k \in 1..n |-> IF k <= Len(r) THEN r[k] ELSE Null]>> )
             \o FrameRows(Tail(recs), n)

\* A record with more fields than the schema has columns makes the read fail.
Readable(recs, n) == \A k \in 1..Len(recs) : Len(recs[k]) <= n

\* merge_and_finalize(clean_csv_path, fixed_csv_path, final_parquet_path).
\* fixed is Absent for a path that does not exist. eager: whether this build's
\* scan of the fixed file raises on an unreadable file at once (the inner
\* except: the fixed rows are ignored) or only when the frame is written (the
\* outer except: the merge fails). The result carries the rows written.
\* Field values are text throughout: the column types the engine infers are
\* not modelled.
merge_and_finalize(clean, fixed, eager) ==
    LET failure == [success |-> FALSE, total_rows |-> 0, rows |-> <<>>]
        crecs == ScanCsv(clean.content)
        n == Len(crecs[1])
        frecs == ScanCsv(fixed.content)
        use_fixed == fixed.exists /\ Len(fixed.content) > 0
        df_clean == FrameRows(Tail(crecs), n)
        df_fixed == FrameRows(Tail(frecs), n)
    IN  IF ~clean.exists \/ crecs = <<>> \/ ~Readable(Tail(crecs), n) THEN failure
        ELSE IF use_fixed /\ frecs # <<>> /\ ~Readable(Tail(frecs), n)
             THEN IF eager
                  THEN [success |-> TRUE, total_rows |-> Len(df_clean), rows |-> df_clean]
                  ELSE failure
        ELSE IF use_fixed /\ frecs # <<>>
             THEN [success |-> TRUE, total_rows |-> Len(df_clean) + Len(df_fixed),
                   rows |-> df_clean \o df_fixed]
        ELSE [success |-> TRUE, total_rows |-> Len(df_clean), rows |-> df_clean]

\* What a step records of its merge call.
MergeCall(fixed_path, res) ==
    [called |-> TRUE, fixed |-> fixed_path, success |-> res.success]

\* ------------------------------------------------------------ strategies
\* with open(clean_path) as f: f.readline().strip().split(',')
HeaderList(clean) == Split(Strip(ReadLine(clean.content)), ",")

\* Drop Bad Rows handing the ragged stream to the merge.
MutDropBadRows(eager) ==
    /\ page = "repair"
    /\ LET res == merge_and_finalize(clean_file, bad_file, eager)
       IN  /\ master' = IF res.success THEN File(res.rows) ELSE master
           /\ merge_call' = MergeCall("", res)
    /\ processing_complete' = TRUE
    /\ page' = RenderPage(split_stats, TRUE, ai_preview_data)
    /\ UNCHANGED <<uploaded_file, temp_file, clean_file, bad_file, fixed_ai, fixed_manual,
                   manual_edit_mode, split_stats, ai_preview_data, splitter, fixer, uploads, norm>>

\* Strategy A: Drop Bad Rows. The merge's result is not looked at.
DropBadRows(eager) ==
    /\ page = "repair"
    /\ LET res == merge_and_finalize(clean_file, Absent, eager)
       IN  /\ master' = IF res.success THEN File(res.rows) ELSE master
           /\ merge_call' = MergeCall("", res)
    /\ processing_complete' = TRUE
    /\ page' = RenderPage(split_stats, TRUE, ai_preview_data)
    /\ UNCHANGED <<uploaded_file, temp_file, clean_file, bad_file, fixed_ai, fixed_manual,
                   manual_edit_mode, split_stats, ai_preview_data, splitter, fixer, uploads, norm>>

\* The texts the collaborator answers with, and the message of a failed call.
Responses ==
    { ThinkOpen \o <<"a">> \o ThinkClose \o <<"a", ",", "a">>,
      <<" ", "\n">>,
      <<"a", ",", "E", "r", "r", "o", "r", ":", "a">> }
Outcomes ==
    {[raises |-> TRUE, text |-> <<"x">>]}
    \cup {[raises |-> FALSE, text |-> t] : t \in Responses}

\* AIFixer.fix_ragged_row(header, bad_row_str): the cleaned answer, or the
\* sentinel when the invocation raises.
fix_ragged_row(header, bad_row_str, outcome) ==
    IF outcome.raises THEN AIError(outcome.text)
    ELSE CleanResponse(outcome.text, bad_row_str)

\* Strategy B: AI Auto-Fix is pressed; the ragged stream is read.
AiAutoFix ==
    /\ page = "repair"
    /\ ai_rows' = ReadLines(bad_file.content)
    /\ ai_index' = 1
    /\ preview_data' = <<>>
    /\ page' = "fixing"
    /\ merge_call' = NoMerge
    /\ UNCHANGED <<uploaded_file, disk, session, splitter, uploads, norm>>

\* The loop without its header check.
MutSkipped(clean_row, header_str) == clean_row = <<>>

\* Whether the loop passes a line over: blank, or the header.
Skipped(clean_row, header_str) == clean_row = <<>> \/ clean_row = header_str

\* One turn of "for i, row in enumerate(bad_rows)". failed notes whether the
\* proposal is the sentinel of a failed call.
AiRow(outcome) ==
    /\ page = "fixing"
    /\ ai_index <= Len(ai_rows)
    /\ LET header_list == HeaderList(clean_file)
           header_str == Strip(Join(header_list, <<",">>))
           clean_row == Strip(ai_rows[ai_index])
       IN  IF Skipped(clean_row, header_str)
           THEN UNCHANGED preview_data
           ELSE preview_data' = Append(preview_data,
                    [original |-> clean_row,
                     fixed |-> fix_ragged_row(header_list, clean_row, outcome),
                     failed |-> outcome.raises])
    /\ ai_index' = ai_index + 1
    /\ merge_call' = NoMerge
    /\ UNCHANGED <<uploaded_file, disk, session, page, splitter, ai_rows, uploads, norm>>

\* AI Auto-Fix applying its proposals itself, with no review.
MutAiDone ==
    /\ page = "fixing"
    /\ ai_index > Len(ai_rows)
    /\ fixed_ai' = File(Flatten([k \in 1..Len(preview_data) |->
                                    preview_data[k].fixed \o <<"\n">>]))
    /\ processing_complete' = TRUE
    /\ ai_preview_data' = NoPreview
    /\ page' = RenderPage(split_stats, TRUE, NoPreview)
    /\ ai_rows' = <<>> /\ ai_index' = 0 /\ preview_data' = <<>>
    /\ merge_call' = NoMerge
    /\ UNCHANGED <<uploaded_file, temp_file, clean_file, bad_file, fixed_manual, master,
                   manual_edit_mode, split_stats, splitter, uploads, norm>>

\* The loop is over: the proposals are held pending and the page reruns.
AiDone ==
    /\ page = "fixing"
    /\ ai_index > Len(ai_rows)
    /\ ai_preview_data' = Preview(preview_data)
    /\ page' = RenderPage(split_stats, processing_complete, Preview(preview_data))
    /\ ai_rows' = <<>> /\ ai_index' = 0 /\ preview_data' = <<>>
    /\ merge_call' = NoMerge
    /\ UNCHANGED <<uploaded_file, disk, processing_complete, manual_edit_mode,
                   split_stats, splitter, uploads, norm>>

\* The texts an operator types into a cell of a data editor.
EditTexts == {<<"a", ",", "a">>}

\* What st.data_editor hands back for the proposals (num_rows="fixed"): the
\* list itself, or the list with one "fixed" cell retyped.
EditedPreviews(rows) ==
    {rows} \cup {[rows EXCEPT ![k].fixed = t] : k \in 1..Len(rows), t \in EditTexts}

ErrorMark == <<"E", "r", "r", "o", "r", ":">>

\* Whether Accept & Apply leaves a proposal out: "Error:" in row['fixed'].
LeftOut(fixed) == Contains(fixed, ErrorMark)

RECURSIVE ApprovedLines(_)
\* for index, row in edited_preview.iterrows(): the lines written.
ApprovedLines(rows) ==
    IF rows = <<>> THEN <<>>
    ELSE ( IF LeftOut(Head(rows).fixed) THEN <<>> ELSE Head(rows).fixed \o <<"\n">> )
         \o ApprovedLines(Tail(rows))

\* Review mode, Accept & Apply: the approved fixes are written to
\* fixed_ai.csv and merged; the session moves on only when the merge succeeds.
AcceptAndApply(edited_preview, eager) ==
    /\ page = "review"
    /\ LET header == HeaderList(clean_file)
           fixed_file == File(Join(header, <<",">>) \o <<"\n">> \o ApprovedLines(edited_preview))
           res == merge_and_finalize(clean_file, fixed_file, eager)
       IN  /\ fixed_ai' = fixed_file
           /\ merge_call' = MergeCall("fixed_ai.csv", res)
           /\ IF res.success
              THEN /\ master' = File(res.rows)
                   /\ processing_complete' = TRUE
                   /\ ai_preview_data' = NoPreview
                   /\ page' = RenderPage(split_stats, TRUE, NoPreview)
              ELSE UNCHANGED <<master, processing_complete, ai_preview_data, page>>
    /\ UNCHANGED <<uploaded_file, temp_file, clean_file, bad_file, fixed_manual,
                   manual_edit_mode, split_stats, splitter, fixer, uploads, norm>>

\* Review mode, Discard.
Discard ==
    /\ page = "review"
    /\ ai_preview_data' = NoPreview
    /\ page' = RenderPage(split_stats, processing_complete, NoPreview)
    /\ merge_call' = NoMerge
    /\ UNCHANGED <<uploaded_file, disk, processing_complete, manual_edit_mode,
                   split_stats, splitter, fixer, uploads, norm>>

\* Strategy C: Manual Edit opens the editor below the strategy buttons.
ManualEdit ==
    /\ page = "repair"
    /\ manual_edit_mode' = TRUE
    /\ merge_call' = NoMerge
    /\ UNCHANGED <<uploaded_file, disk, processing_complete, split_stats,
                   ai_preview_data, page, splitter, fixer, uploads, norm>>

\* The editor's grid: one row per non-blank line of the ragged stream.
GridData(quarantine) == SelectNonBlank(ReadLines(quarantine.content))

\* s without its k-th element.
RemoveAt(s, k) == SubSeq(s, 1, k - 1) \o SubSeq(s, k + 1, Len(s))

\* What st.data_editor hands back for the grid (num_rows="dynamic"): the
\* grid itself, or the grid with one row retyped, deleted or added.
EditedGrids(grid) ==
    {grid}
    \cup {[grid EXCEPT ![k] = t] : k \in 1..Len(grid), t \in EditTexts}
    \cup {RemoveAt(grid, k) : k \in 1..Len(grid)}
    \cup {Append(grid, t) : t \in EditTexts}

RECURSIVE RawLines(_)
\* for item in edited_df: f.write(item["raw_text"] + "\n")
RawLines(items) ==
    IF items = <<>> THEN <<>> ELSE Head(items) \o <<"\n">> \o RawLines(Tail(items))

\* Editor, Save & Merge: the edited texts are written to fixed_manual.csv
\* under the header line and merged. The merge's result is not looked at.
SaveAndMerge(edited_df, eager) ==
    /\ page = "repair"
    /\ manual_edit_mode
    /\ LET header == Strip(ReadLine(clean_file.content))
           fixed_file == File(header \o <<"\n">> \o RawLines(edited_df))
           res == merge_and_finalize(clean_file, fixed_file, eager)
       IN  /\ fixed_manual' = fixed_file
           /\ master' = IF res.success THEN File(res.rows) ELSE master
           /\ merge_call' = MergeCall("fixed_manual.csv", res)
    /\ processing_complete' = TRUE
    /\ manual_edit_mode' = FALSE
    /\ page' = RenderPage(split_stats, TRUE, ai_preview_data)
    /\ UNCHANGED <<uploaded_file, temp_file, clean_file, bad_file, fixed_ai,
                   split_stats, ai_preview_data, splitter, fixer, uploads, norm>>

\* Editor, Cancel.
Cancel ==
    /\ page = "repair"
    /\ manual_edit_mode
    /\ manual_edit_mode' = FALSE
    /\ merge_call' = NoMerge
    /\ UNCHANGED <<uploaded_file, disk, processing_complete, split_stats,
                   ai_preview_data, page, splitter, fixer, uploads, norm>>

\* --------------------------------------- fix_ragged_row's cleanup, alone
\* Row texts of a fix_ragged_row call on its own.
MaxRowLen == 3
RowChars == {"a", ",", "}", " "}
RowTexts == SeqsOver(RowChars, MaxRowLen)

\* The label in the cases a collaborator writes it.
Labels ==
    { FinalAnswer,
      <<"F", "I", "N", "A", "L", " ", "A", "N", "S", "W", "E", "R", ":">>,
      <<"f", "i", "n", "a", "l", " ", "a", "n", "s", "w", "e", "r", ":">> }

\* The ways an answer wraps the row: any of a reasoning block, a code fence,
\* a label and a boxed wrapper.
Wrappings ==
    [think : BOOLEAN, fence : BOOLEAN, label : {<<>>} \cup Labels, boxed : BOOLEAN]

Wrap(r, w) ==
    (IF w.think THEN ThinkOpen \o <<"p", "\n", "q">> \o ThinkClose \o <<"\n">> ELSE <<>>)
    \o (IF w.fence THEN FenceCsv \o <<"\n">> ELSE <<>>)
    \o (IF w.label # <<>> THEN w.label \o <<" ">> ELSE <<>>)
    \o (IF w.boxed THEN BoxedOpen \o r \o BraceClose ELSE r)
    \o (IF w.fence THEN <<"\n">> \o Fence ELSE <<>>)

\* The ragged row of the call on its own.
SentRow == <<"b", ",">>

InitClean ==
    /\ uploaded_file = Absent
    /\ temp_file = Absent /\ clean_file = Absent /\ bad_file = Absent
    /\ fixed_ai = Absent /\ fixed_manual = Absent /\ master = Absent
    /\ processing_complete = FALSE
    /\ manual_edit_mode = FALSE
    /\ split_stats = NoStats
    /\ ai_preview_data = NoPreview
    /\ page = "upload"
    /\ reader = 0 /\ total_rows = 0 /\ good_rows = 0 /\ bad_rows = 0 /\ expected_cols = 0
    /\ ai_rows = <<>> /\ ai_index = 0 /\ preview_data = <<>>
    /\ uploads = 0
    /\ merge_call = NoMerge
    /\ \E r \in RowTexts, w \in Wrappings :
          norm = [row |-> r, raw |-> Wrap(r, w), out |-> <<>>, done |-> FALSE]

\* The call returns what the cleaning steps make of the answer.
Clean ==
    /\ ~norm.done
    /\ norm' = [norm EXCEPT !.out = fix_ragged_row(<<>>, SentRow,
                                       [raises |-> FALSE, text |-> norm.raw]),
                            !.done = TRUE]
    /\ UNCHANGED <<uploaded_file, disk, session, page, splitter, fixer, uploads, merge_call>>

NextClean == Clean

SpecClean == InitClean /\ [][NextClean]_vars

\* ------------------------------------------------- a session of uploads
\* Several files pass through the uploader in one session. The repair
\* strategies are left out: none of them writes split_stats, the saved upload
\* or the two streams.
MaxSessionUploads == 2
MaxSessionRecords == 2
SessionFiles == {f \in Files : Len(f) <= MaxSessionRecords}

\* An upload into the empty uploader, in a session of MaxSessionUploads files.
SessionUpload(content) ==
    /\ uploads < MaxSessionUploads
    /\ SaveAndCheck(content)

\* Another file is dropped on the uploader while one is shown. The script
\* reruns with the new file: temp_path exists, so nothing is saved;
\* split_stats is not None, so the checks are passed over; the page is
\* rendered from the session state as it is.
ReplaceUpload(content) ==
    /\ page \in {"exception", "finished", "repair", "review"}
    /\ uploads < MaxSessionUploads
    /\ content # uploaded_file.content
    /\ uploads' = uploads + 1
    /\ uploaded_file' = File(content)
    /\ temp_file' = IF temp_file.exists THEN temp_file ELSE File(content)
    /\ page' = RenderPage(split_stats, processing_complete, ai_preview_data)
    /\ merge_call' = NoMerge
    /\ UNCHANGED <<clean_file, bad_file, fixed_ai, fixed_manual, master,
                   session, splitter, fixer, norm>>

NextSession ==
    \/ \E content \in SessionFiles : SessionUpload(content)
    \/ \E content \in SessionFiles : ReplaceUpload(content)
    \/ Remove
    \/ SplitHeader
    \/ SplitRow
    \/ SplitReturn

SpecSession == Init /\ [][NextSession]_vars

Next ==
    \/ \E content \in Files : Upload(content)
    \/ Remove
    \/ SplitHeader
    \/ SplitRow
    \/ SplitReturn
    \/ \E eager \in BOOLEAN : DropBadRows(eager)
    \/ AiAutoFix
    \/ \E outcome \in Outcomes : AiRow(outcome)
    \/ AiDone
    \/ \E edited_preview \in EditedPreviews(ai_preview_data.rows), eager \in BOOLEAN :
          AcceptAndApply(edited_preview, eager)
    \/ Discard
    \/ ManualEdit
    \/ \E edited_df \in EditedGrids(GridData(bad_file)), eager \in BOOLEAN :
          SaveAndMerge(edited_df, eager)
    \/ Cancel

Spec == Init /\ [][Next]_vars
\* ================================================================ claims
\* The uploaded file as the splitter reads it.
Input == temp_file.content

\* The data records the splitter has consumed: all of them once it returned.
Consumed ==
    IF page = "splitting" THEN SubSeq(Input, 2, reader - 1)
    ELSE SubSeq(Input, 2, Len(Input))

\* The splitter is past the header, or has returned its counts.
SplitUnderWay == (page = "splitting" /\ reader >= 2) \/ split_stats.kind = "result"

\* C1: for a header of N fields, the conforming stream holds the header and
\* then exactly the data records of N fields, the ragged stream the header and
\* then exactly the data records of another field count, each in input order;
\* so every data record is in exactly one of the two streams. It holds after
\* every turn of the row loop, of the records consumed so far.
C1_SplitByFieldCount ==
    SplitUnderWay =>
        LET header == Input[1]
            N == Len(header)
        IN  /\ ParseCsv(clean_file.content)
                 = <<header>> \o SelectSeq(Consumed, LAMBDA r : Len(r) = N)
            /\ ParseCsv(bad_file.content)
                 = <<header>> \o SelectSeq(Consumed, LAMBDA r : Len(r) # N)

\* C1 witness: the splitter has returned, with a record in each stream.
C1_Witness ==
    /\ split_stats.kind = "result"
    /\ Len(ParseCsv(clean_file.content)) >= 2
    /\ Len(ParseCsv(bad_file.content)) >= 2

\* C2: good + bad = total after every turn of the row loop, total being the
\* records read after the header; and the SplitResult returned has
\* good + bad = total = the input's records less the header.
C2_CountsAddUp ==
    /\ (page = "splitting" /\ reader >= 2) =>
            /\ good_rows + bad_rows = total_rows
            /\ total_rows = reader - 2
    /\ split_stats.kind = "result" =>
            /\ split_stats.good + split_stats.bad = split_stats.total
            /\ split_stats.total = Len(Input) - 1

\* C2 witness: a SplitResult of two data records, one of each kind.
C2_Witness ==
    /\ split_stats.kind = "result"
    /\ split_stats.total = 2 /\ split_stats.good = 1 /\ split_stats.bad = 1

\* C6: for an input with no records the splitter returns the empty-file
\* outcome with no record in either stream, and the page that called it
\* halts cleanly: it raises no unhandled error on the split result and
\* reaches no repair or finalize stage.
C6_EmptyFileHaltsCleanly ==
    split_stats.kind = "empty_file" =>
        /\ clean_file.content = <<>> /\ bad_file.content = <<>>
        /\ page \notin {"exception", "repair", "review", "fixing"}
        /\ ~merge_call.called

\* C7: when the answer is the row text r wrapped in any of a reasoning block,
\* a code fence, a "Final Answer:" label in any case and a boxed wrapper, the
\* cleaning steps return r, stripped, no character of r removed.
C7_CleanupReturnsRow ==
    (norm.done /\ norm.raw # norm.row /\ Strip(norm.row) # <<>>) =>
        norm.out = Strip(norm.row)

\* The header's column count as the finalizer reads it from the conforming
\* stream.
HeaderN == Len(ScanCsv(clean_file.content)[1])

\* The conforming data records of the input, in input order.
ConformingRows == SelectSeq(SubSeq(Input, 2, Len(Input)), LAMBDA r : Len(r) = Len(Input[1]))

\* The fixed stream the last merge call was given.
MergedFixed ==
    IF merge_call.fixed = "fixed_ai.csv" THEN fixed_ai
    ELSE IF merge_call.fixed = "fixed_manual.csv" THEN fixed_manual
    ELSE Absent

\* The data records of a fixed stream: those under its header line.
FixRecords(f) == IF ScanCsv(f.content) = <<>> THEN <<>> ELSE Tail(ScanCsv(f.content))

\* C3: AI Auto-Fix only holds its proposals pending: while it runs, and when
\* it ends, no fixed stream is written, nothing is merged and the session is
\* not completed; fixed_ai.csv is written, and merged, only by a step taken
\* from the review page with proposals pending (Accept & Apply); and a step
\* from the review page that clears the proposals without a merge (Discard)
\* leaves every file as it was.
C3_NoImplicitAccept ==
    [][ /\ (page = "fixing" \/ page' = "fixing") =>
              /\ UNCHANGED <<fixed_ai, fixed_manual, master, processing_complete>>
              /\ ~merge_call'.called
        /\ (fixed_ai' # fixed_ai \/ (merge_call'.called /\ merge_call'.fixed = "fixed_ai.csv")) =>
              /\ page = "review"
              /\ ai_preview_data.set /\ ai_preview_data.rows # <<>>
        /\ (page = "review" /\ ~ai_preview_data'.set /\ ~merge_call'.called) =>
              UNCHANGED disk
      ]_vars

\* C3 witness: proposals were accepted and merged into the canonical dataset.
C3_Witness ==
    /\ merge_call.called /\ merge_call.fixed = "fixed_ai.csv" /\ merge_call.success
    /\ page = "finished"
    /\ Len(master.content) > Len(ConformingRows)

\* C4: at finalize every fix row is checked against the header's N: the
\* merge succeeds, and the canonical dataset is the conforming stream's rows
\* followed by exactly the fix rows of N fields, a fix row of another field
\* count being left out.
C4_FinalizeExcludesRaggedFixes ==
    (merge_call.called /\ split_stats.kind = "result" /\ split_stats.expected_cols >= 1
        /\ FixRecords(MergedFixed) # <<>>) =>
        /\ merge_call.success
        /\ master.content
             = ConformingRows \o SelectSeq(FixRecords(MergedFixed), LAMBDA r : Len(r) = HeaderN)

\* The lines Accept & Apply would write for edited proposals e of the pending
\* proposals rows, were it to leave out exactly the sentinels of failed calls.
RECURSIVE NonSentinelLines(_, _)
NonSentinelLines(e, rows) ==
    IF e = <<>> THEN <<>>
    ELSE ( IF Head(e).failed /\ Head(e).fixed = Head(rows).fixed THEN <<>>
           ELSE Head(e).fixed \o <<"\n">> )
         \o NonSentinelLines(Tail(e), Tail(rows))

\* C5: when a batch is accepted, the fixed stream is the header line followed
\* by the proposals that are not sentinels of a failed call, in proposal
\* order: no sentinel is written, no proposal of a successful call is left out.
C5_AcceptLeavesOutSentinelsOnly ==
    [][ (page = "review" /\ merge_call'.called /\ split_stats.expected_cols >= 1) =>
            \E e \in EditedPreviews(ai_preview_data.rows) :
                fixed_ai'.content
                  = Join(HeaderList(clean_file), <<",">>) \o <<"\n">>
                    \o NonSentinelLines(e, ai_preview_data.rows)
      ]_vars

C9_ManualRowsValidated ==
    (fixed_manual.exists /\ ScanCsv(clean_file.content) # <<>>) =>
        \A k \in 1..Len(FixRecords(fixed_manual)) :
            Len(FixRecords(fixed_manual)[k]) = HeaderN

\* The lines of the ragged stream that AI Auto-Fix makes a proposal for, among
\* its first n: the stripped lines that are not blank and not the header line.
EligibleLines(n) ==
    LET lines == ReadLines(bad_file.content)
        header_str == Strip(ReadLine(clean_file.content))
        stripped == [k \in 1..n |-> Strip(lines[k])]
    IN  SelectSeq(stripped, LAMBDA l : l # <<>> /\ l # header_str)

Originals(rows) == [k \in 1..Len(rows) |-> rows[k].original]

SentinelPrefix == AIError(<<>>)

\* What holds of the proposals while the loop runs, and once they are pending.
ProposalsMatchLines ==
    /\ page = "fixing" =>
          /\ ai_index \in 1..(Len(ai_rows) + 1)
          /\ ai_rows = ReadLines(bad_file.content)
          /\ Originals(preview_data) = EligibleLines(ai_index - 1)
          /\ \A k \in 1..Len(preview_data) :
                preview_data[k].failed => MatchAt(preview_data[k].fixed, 1, SentinelPrefix)
    /\ (ai_preview_data.set /\ split_stats.kind = "result") =>
          /\ Originals(ai_preview_data.rows)
               = EligibleLines(Len(ReadLines(bad_file.content)))
          /\ \A k \in 1..Len(ai_preview_data.rows) :
                ai_preview_data.rows[k].failed
                    => MatchAt(ai_preview_data.rows[k].fixed, 1, SentinelPrefix)

\* C10 as amended: the automated strategy yields exactly one proposal for
\* each non-blank line of the ragged stream that is not the header line, in
\* the stream's order, whatever calls fail: a failed call leaves that line's
\* sentinel, every step of the loop goes on to the next line, and the loop
\* is left only with the proposals of all the lines held pending.
C10_OneProposalPerLine ==
    /\ []ProposalsMatchLines
    /\ [][ page = "fixing" =>
              \/ page' = "fixing" /\ ai_index' = ai_index + 1
              \/ /\ page' \in {"review", "repair"}
                 /\ ai_index = Len(ai_rows) + 1
                 /\ ai_preview_data' = Preview(preview_data)
          ]_vars

\* C10 witness: two proposals are pending, the first the sentinel of a failed
\* call and the second the answer of a call that succeeded.
C10_Witness ==
    /\ ai_preview_data.set /\ Len(ai_preview_data.rows) = 2
    /\ ai_preview_data.rows[1].failed
    /\ ~ai_preview_data.rows[2].failed

\* C10 as stated: one proposal for each ragged record.
C10_OneProposalPerRecord ==
    (ai_preview_data.set /\ split_stats.kind = "result") =>
        Len(ai_preview_data.rows) = split_stats.bad

\* C11: whenever the page takes the finished branch and reports the file as
\* loaded into the master dataset, a merge_and_finalize call of this run has
\* succeeded and the canonical dataset exists: no finished page after a failed
\* finalize, and a file without ragged rows is finalized too.
C11_FinishedMeansFinalized ==
    page = "finished" =>
        /\ merge_call.called
        /\ merge_call.success
        /\ master.exists

\* The step is a Save & Merge of the editor's grid as it was loaded: no row
\* added, deleted or retyped.
UneditedSave ==
    /\ page = "repair"
    /\ manual_edit_mode
    /\ merge_call'.called
    /\ merge_call'.fixed = "fixed_manual.csv"
    /\ fixed_manual' = File(Strip(ReadLine(clean_file.content)) \o <<"\n">>
                              \o RawLines(GridData(bad_file)))

\* C13: in the Manual strategy the header at the top of the ragged stream is
\* never emitted as a data row: a Save & Merge without edits writes a fixed
\* stream of the header, once, and one row per ragged data record, and a
\* successful merge adds to the conforming rows exactly ragged_count rows, none
\* of them equal to the header.
C13_ManualHeaderNotARow ==
    [][ (UneditedSave /\ split_stats.expected_cols >= 1) =>
          LET recs == ParseCsv(fixed_manual'.content)
              header == recs[1]
              rows == master'.content
          IN  /\ Len(recs) = 1 + split_stats.bad
              /\ \A k \in 2..Len(recs) : recs[k] # header
              /\ merge_call'.success =>
                    /\ Len(rows) = split_stats.good + split_stats.bad
                    /\ \A k \in (split_stats.good + 1)..Len(rows) : rows[k] # header
      ]_vars

\* C12: a cached split result, and the conforming and ragged streams on
\* disk, are those of the file now in the uploader: whatever uploads,
\* replacements and removals came before, the counts shown and the streams
\* the strategies work on were computed from the current file's content. It
\* is stated of the pages that show the counts or offer the strategies.
C12_SplitIsOfCurrentFile ==
    (uploaded_file.exists /\ split_stats.kind # "none"
        /\ page \in {"finished", "repair", "review"}) =>
        LET current == uploaded_file.content
            header == current[1]
            N == Len(header)
            rows == Tail(current)
            good == SelectSeq(rows, LAMBDA r : Len(r) = N)
            bad == SelectSeq(rows, LAMBDA r : Len(r) # N)
        IN  IF current = <<>> THEN split_stats.kind = "empty_file"
            ELSE /\ split_stats.kind = "result"
                 /\ split_stats.total = Len(rows)
                 /\ split_stats.good = Len(good)
                 /\ split_stats.bad = Len(bad)
                 /\ split_stats.expected_cols = N
                 /\ ParseCsv(clean_file.content) = <<header>> \o good
                 /\ ParseCsv(bad_file.content) = <<header>> \o bad

====
